---- MODULE Spec2Model ----
(***************************************************************************)
(* Model of the token dashboard.                                           *)
(*                                                                         *)
(*   Home       (src/frontend/src/pages/index.js): the page state tokens,  *)
(*              loading, stats, and the two async functions fetchTokens    *)
(*              and fetchStats started on mount.  Every await is a point   *)
(*              where the other function may run.                          *)
(*   TokenTable (src/unnamed/part_000): the sort state (sortField,         *)
(*              sortDirection), handleSort, and sortedTokens, the copy of  *)
(*              the tokens prop sorted with the comparator of lines 17-26. *)
(*                                                                         *)
(* A nullable JavaScript value is a sequence of length at most one:        *)
(* <<>> is null and <<x>> is the value x.                                  *)
(***************************************************************************)
EXTENDS Integers, Sequences, FiniteSets, TLC

\* ------------------------------------------------------------------ bounds
MaxLen == 3      \* longest tokens prop given to TokenTable
MaxVal == 2      \* non-null field values are 1..MaxVal
MaxRows == 1     \* longest list the token-list read returns to Home
MaxCaps == 2     \* longest market_cap list returned to fetchStats
MaxCap == 2      \* market_cap values returned to fetchStats are 0..MaxCap

\* ------------------------------------------------------------ plain values
NULL == <<>>
Some(x) == <<x>>
IsNull(v) == v = NULL
Get(v) == v[1]

Min(a, b) == IF a < b THEN a ELSE b

\* ------------------------------------------------------------ TokenRecord
Fields ==
    {"token_name", "token_symbol", "price", "market_cap", "volume_24h",
     "bonding_curve_progress", "creation_time"}

Directions == {"asc", "desc"}

Vals == {NULL} \cup {Some(n) : n \in 1..MaxVal}

\* The value held by the columns other than market_cap in the enumerated
\* records: the next value in the cycle null, 1, ..., MaxVal, null.  The
\* comparator reads one column only, and every column content occurs.
Rot(v) ==
    IF IsNull(v) THEN Some(1)
    ELSE IF Get(v) = MaxVal THEN NULL ELSE Some(Get(v) + 1)

MkToken(i, v) ==
    [f \in Fields \cup {"id"} |->
        IF f = "id" THEN Some(i)
        ELSE IF f = "market_cap" THEN v ELSE Rot(v)]

TokenLists(n) ==
    UNION {{[i \in 1..k |-> MkToken(i, vs[i])] : vs \in [1..k -> Vals]} : k \in 0..n}

\* --------------------------------------------------- TokenTable: comparator
\* Two faulty variants of the comparator: nulls ranked first, direction ignored.
CompareNullFirst(a, b, field, dir) ==
    IF IsNull(a[field]) THEN 0 - 1
    ELSE IF IsNull(b[field]) THEN 1
    ELSE IF dir = "asc"
         THEN (IF Get(a[field]) < Get(b[field]) THEN 0 - 1 ELSE 1)
         ELSE (IF Get(a[field]) > Get(b[field]) THEN 0 - 1 ELSE 1)

CompareIgnoreDirection(a, b, field, dir) ==
    IF IsNull(a[field]) THEN 1
    ELSE IF IsNull(b[field]) THEN 0 - 1
    ELSE IF Get(a[field]) < Get(b[field]) THEN 0 - 1 ELSE 1

\* The arrow function given to sort: never returns 0.
Compare(a, b, field, dir) ==
    IF IsNull(a[field]) THEN 1
    ELSE IF IsNull(b[field]) THEN 0 - 1
    ELSE IF dir = "asc"
         THEN (IF Get(a[field]) < Get(b[field]) THEN 0 - 1 ELSE 1)
         ELSE (IF Get(a[field]) > Get(b[field]) THEN 0 - 1 ELSE 1)

\* ------------------------------------------- Array.prototype.sort, engines
\* Compare(a, b) > 0 and Compare(b, a) > 0 both hold for equal or null values,
\* so the comparator is not a consistent one and ECMAScript leaves the
\* resulting order to the implementation.  The engine is a nondeterministic
\* choice, fixed for a run, among the algorithms of the deployed engines:
\*   "timsort"   V8 >= 7.0 (arrays shorter than 64: one counted run, then
\*               binary insertion),
\*   "insertion" SpiderMonkey (arrays shorter than 24) and V8 < 7.0 (arrays
\*               of at most 10): linear insertion, comparator(earlier, item),
\*   "merge"     JavaScriptCore: bottom-up merge, comparator(right, left).
Engines == {"timsort", "insertion", "merge"}

\* a with the element at index i moved down to index p <= i.
MoveTo(a, i, p) ==
    [k \in 1..Len(a) |->
        IF k < p THEN a[k]
        ELSE IF k = p THEN a[i]
        ELSE IF k <= i THEN a[k - 1] ELSE a[k]]

Reverse(a, n) ==
    [k \in 1..Len(a) |-> IF k <= n THEN a[n + 1 - k] ELSE a[k]]

\* "insertion": for (j = i - 1; j >= from; j--) if (cmp(a[j], item) <= 0) break
RECURSIVE InsertPos(_, _, _, _, _)
InsertPos(a, item, j, field, dir) ==
    IF j < 1 THEN 1
    ELSE IF Compare(a[j], item, field, dir) <= 0 THEN j + 1
    ELSE InsertPos(a, item, j - 1, field, dir)

RECURSIVE InsertionSort(_, _, _, _)
InsertionSort(a, i, field, dir) ==
    IF i > Len(a) THEN a
    ELSE InsertionSort(MoveTo(a, i, InsertPos(a, a[i], i - 1, field, dir)),
                       i + 1, field, dir)

\* "timsort": CountAndMakeRun, the length of the run starting at index 1
RECURSIVE RunLength(_, _, _, _, _)
RunLength(a, idx, isDescending, field, dir) ==
    IF idx > Len(a) THEN idx - 1
    ELSE LET order == Compare(a[idx], a[idx - 1], field, dir)
         IN  IF isDescending /\ order >= 0 THEN idx - 1
             ELSE IF ~isDescending /\ order < 0 THEN idx - 1
             ELSE RunLength(a, idx + 1, isDescending, field, dir)

\* "timsort": the binary search of BinaryInsertionSort in [left, right)
RECURSIVE BinaryPos(_, _, _, _, _, _)
BinaryPos(a, pivot, left, right, field, dir) ==
    IF left >= right THEN left
    ELSE LET mid == left + ((right - left) \div 2)
         IN  IF Compare(pivot, a[mid], field, dir) < 0
             THEN BinaryPos(a, pivot, left, mid, field, dir)
             ELSE BinaryPos(a, pivot, mid + 1, right, field, dir)

RECURSIVE BinaryInsertionSort(_, _, _, _)
BinaryInsertionSort(a, start, field, dir) ==
    IF start > Len(a) THEN a
    ELSE BinaryInsertionSort(
             MoveTo(a, start, BinaryPos(a, a[start], 1, start, field, dir)),
             start + 1, field, dir)

TimSort(a, field, dir) ==
    IF Len(a) < 2 THEN a
    ELSE LET isDescending == Compare(a[2], a[1], field, dir) < 0
             run == RunLength(a, 3, isDescending, field, dir)
             made == IF isDescending THEN Reverse(a, run) ELSE a
         IN  BinaryInsertionSort(made, run + 1, field, dir)

\* "merge": one merge of src[left, leftEnd) with src[right, rightEnd),
\* indices counted from 0 as in the engine
RECURSIVE MergeRun(_, _, _, _, _, _, _)
MergeRun(src, left, leftEnd, right, rightEnd, field, dir) ==
    IF left >= leftEnd /\ right >= rightEnd THEN <<>>
    ELSE IF right < rightEnd
            /\ (left >= leftEnd
                \/ Compare(src[right + 1], src[left + 1], field, dir) < 0)
         THEN <<src[right + 1]>>
              \o MergeRun(src, left, leftEnd, right + 1, rightEnd, field, dir)
         ELSE <<src[left + 1]>>
              \o MergeRun(src, left + 1, leftEnd, right, rightEnd, field, dir)

RECURSIVE MergePass(_, _, _, _, _)
MergePass(src, srcIndex, width, field, dir) ==
    IF srcIndex >= Len(src) THEN <<>>
    ELSE LET leftEnd == Min(srcIndex + width, Len(src))
             rightEnd == Min(leftEnd + width, Len(src))
         IN  MergeRun(src, srcIndex, leftEnd, leftEnd, rightEnd, field, dir)
             \o MergePass(src, srcIndex + 2 * width, width, field, dir)

RECURSIVE MergeSort(_, _, _, _)
MergeSort(src, width, field, dir) ==
    IF width >= Len(src) THEN src
    ELSE MergeSort(MergePass(src, 0, width, field, dir), 2 * width, field, dir)

\* [...tokens].sort(comparator): a sorted copy, the prop is not written
SortTokens(toks, field, dir, eng) ==
    CASE eng = "timsort" -> TimSort(toks, field, dir)
      [] eng = "insertion" -> InsertionSort(toks, 2, field, dir)
      [] eng = "merge" -> MergeSort(toks, 1, field, dir)

\* ------------------------------------------------------ Home: page state
VARIABLES
    tokens,           \* useState([])
    loading,          \* useState(true)
    stats,            \* useState({totalTokens: 0, ...})
    pcTokens,         \* position of fetchTokens: "idle", "await", "done"
    pcStats,          \* position of fetchStats: "idle", "await_total",
                      \*   "await_kings", "await_migrated", "await_caps", "done"
    totalTokens,      \* local of fetchStats, null until its read resolved
    kingsOfHill,      \* local of fetchStats
    raydiumMigrated,  \* local of fetchStats
    escaped,          \* the async functions whose promise was rejected
    reads,            \* history: the response each read delivered, if any
    view,             \* what Home renders below the heading
    sortField,        \* TokenTable: useState('market_cap')
    sortDirection,    \* TokenTable: useState('desc')
    sortedTokens,     \* TokenTable: the rows rendered, <<>> while not rendered
    engine,           \* the sort algorithm of the JavaScript engine in use
    last              \* history: the last handleSort call, if any

vars ==
    <<tokens, loading, stats, pcTokens, pcStats, totalTokens, kingsOfHill,
      raydiumMigrated, escaped, reads, view, sortField, sortDirection,
      sortedTokens, engine, last>>

homeVars ==
    <<tokens, loading, stats, pcTokens, pcStats, totalTokens, kingsOfHill,
      raydiumMigrated, escaped, reads, view>>

ReadNames == {"tokens", "total", "kings", "migrated", "caps"}

\* A number as the exact quotient num / den in lowest terms, den > 0.
RECURSIVE GCD(_, _)
GCD(a, b) == IF b = 0 THEN a ELSE GCD(b, a % b)

Ratio(num, den) ==
    LET g == GCD(num, den) IN <<num \div g, den \div g>>

Zero == <<0, 1>>

StatsDefault ==
    [totalTokens |-> 0, kingsOfHill |-> 0, raydiumMigrated |-> 0,
     averageMarketCap |-> Zero]

\* ------------------------------------------------- the data-store client
\* What awaiting a read yields: a rejected promise, or a resolved response
\* {data, count, error}; a failure the client reports has error set and
\* data and count null.
Resolved(data, count, error) ==
    [rejected |-> FALSE, data |-> data, count |-> count, error |-> error]

Rejected ==
    [rejected |-> TRUE, data |-> NULL, count |-> NULL, error |-> TRUE]

Failed == Resolved(NULL, NULL, TRUE)

IsFailure(resp) == resp.rejected \/ resp.error

TokenResponses ==
    {Resolved(Some(l), NULL, FALSE) : l \in TokenLists(MaxRows)}
    \cup {Resolved(NULL, NULL, FALSE), Failed, Rejected}

\* The counts a count read may deliver.
TotalCounts == {0, 120}
KingsCounts == {0, 3}
MigratedCounts == {0, 40}

CountResponses(counts) ==
    {Resolved(NULL, Some(n), FALSE) : n \in counts} \cup {Failed, Rejected}

CapValues == {NULL} \cup {Some(n) : n \in 0..MaxCap}

CapLists ==
    UNION {[1..k -> {[market_cap |-> v] : v \in CapValues}] : k \in 0..MaxCaps}

CapsResponses ==
    {Resolved(Some(l), NULL, FALSE) : l \in CapLists} \cup {Failed, Rejected}

\* ------------------------------------------------------------ Home: render
\* {loading ? <p>Loading tokens...</p> : <TokenTable tokens={tokens} />}
HomeView(isLoading) == IF isLoading THEN "loading" ELSE "table"

\* The rows TokenTable renders under Home's state.
Rows(isLoading, toks, field, dir, eng) ==
    IF isLoading THEN <<>> ELSE SortTokens(toks, field, dir, eng)

\* ----------------------------------------------------- Home: fetchTokens
\* Faulty variant: the exception leaves fetchTokens.
FetchTokensRethrow(esc) == esc \cup {"fetchTokens"}

\* catch (error) { console.error(...) }: nothing is rethrown.
FetchTokensCatch(esc) == esc

\* Faulty variant: setLoading(false) on the success path only.
LoadingOnSuccessOnly(cur, thrown) == IF thrown THEN cur ELSE FALSE

\* finally { setLoading(false) }
LoadingFinally(cur, thrown) == FALSE

\* if (error) throw error; setTokens(data || [])
TokensAfterRead(cur, resp) ==
    IF IsFailure(resp) THEN cur
    ELSE IF IsNull(resp.data) THEN <<>> ELSE Get(resp.data)

\* ------------------------------------------------------ Home: fetchStats
\* catch (error) { console.error(...) }: nothing is rethrown.
FetchStatsCatch(esc) == esc

\* count || 0
OrZero(c) == IF IsNull(c) THEN 0 ELSE Get(c)

\* Faulty variant: only null is filtered out.
TruthyOrZero(row) == ~IsNull(row.market_cap)

\* marketCapData.filter(token => token.market_cap).map(token => token.market_cap)
Truthy(row) == ~IsNull(row.market_cap) /\ Get(row.market_cap) # 0

ValidMarketCaps(rows) ==
    LET kept == SelectSeq(rows, Truthy)
    IN  [i \in 1..Len(kept) |-> Get(kept[i].market_cap)]

\* validMarketCaps.reduce((sum, cap) => sum + cap, 0)
RECURSIVE Reduce(_, _, _)
Reduce(caps, i, sum) ==
    IF i > Len(caps) THEN sum ELSE Reduce(caps, i + 1, sum + caps[i])

AverageMarketCap(rows) ==
    LET validMarketCaps == ValidMarketCaps(rows)
    IN  IF Len(validMarketCaps) > 0
        THEN Ratio(Reduce(validMarketCaps, 1, 0), Len(validMarketCaps))
        ELSE Zero

\* Faulty variant: two counts exchanged.
NewStatsSwapped(total, kings, migrated, rows) ==
    [totalTokens |-> OrZero(total),
     kingsOfHill |-> OrZero(migrated),
     raydiumMigrated |-> OrZero(kings),
     averageMarketCap |-> AverageMarketCap(rows)]

\* The object given to setStats.
NewStats(total, kings, migrated, rows) ==
    [totalTokens |-> OrZero(total),
     kingsOfHill |-> OrZero(kings),
     raydiumMigrated |-> OrZero(migrated),
     averageMarketCap |-> AverageMarketCap(rows)]

\* ------------------------------------------------------------------- Init
\* Home after its first render, before the effect has run.
Init ==
    /\ tokens = <<>>
    /\ loading = TRUE
    /\ stats = StatsDefault
    /\ pcTokens = "idle"
    /\ pcStats = "idle"
    /\ totalTokens = NULL
    /\ kingsOfHill = NULL
    /\ raydiumMigrated = NULL
    /\ escaped = {}
    /\ reads = [r \in ReadNames |-> NULL]
    /\ view = HomeView(TRUE)
    /\ sortField = "market_cap"
    /\ sortDirection = "desc"
    /\ engine \in Engines
    /\ sortedTokens = Rows(TRUE, <<>>, "market_cap", "desc", engine)
    /\ last = NULL

tableVars == <<sortField, sortDirection, engine, last>>

\* What every state update of Home is followed by: Home and TokenTable render.
Render ==
    /\ view' = HomeView(loading')
    /\ sortedTokens' = Rows(loading', tokens', sortField', sortDirection', engine')

\* useEffect(() => { fetchTokens(); fetchStats(); }, []): both functions run
\* to their first await.
Mount ==
    /\ pcTokens = "idle"
    /\ pcStats = "idle"
    /\ loading' = TRUE
    /\ pcTokens' = "await"
    /\ pcStats' = "await_total"
    /\ UNCHANGED <<tokens, stats, totalTokens, kingsOfHill, raydiumMigrated,
                   escaped, reads, tableVars>>
    /\ Render

\* fetchTokens from its await to its end.
FetchTokensResolved ==
    /\ pcTokens = "await"
    /\ \E resp \in TokenResponses :
        /\ reads' = [reads EXCEPT !["tokens"] = Some(resp)]
        /\ tokens' = TokensAfterRead(tokens, resp)
        /\ escaped' = IF IsFailure(resp) THEN FetchTokensCatch(escaped) ELSE escaped
        /\ loading' = LoadingFinally(loading, IsFailure(resp))
    /\ pcTokens' = "done"
    /\ UNCHANGED <<stats, pcStats, totalTokens, kingsOfHill, raydiumMigrated,
                   tableVars>>
    /\ Render

\* fetchStats from the await of a count read to its next await, or to its
\* end when the promise is rejected.  The response's error is not read.
StatsTotalResolved ==
    /\ pcStats = "await_total"
    /\ \E resp \in CountResponses(TotalCounts) :
        /\ reads' = [reads EXCEPT !["total"] = Some(resp)]
        /\ totalTokens' = IF resp.rejected THEN totalTokens ELSE resp.count
        /\ pcStats' = IF resp.rejected THEN "done" ELSE "await_kings"
        /\ escaped' = IF resp.rejected THEN FetchStatsCatch(escaped) ELSE escaped
    /\ UNCHANGED <<tokens, loading, stats, pcTokens, kingsOfHill,
                   raydiumMigrated, tableVars>>
    /\ Render

StatsKingsResolved ==
    /\ pcStats = "await_kings"
    /\ \E resp \in CountResponses(KingsCounts) :
        /\ reads' = [reads EXCEPT !["kings"] = Some(resp)]
        /\ kingsOfHill' = IF resp.rejected THEN kingsOfHill ELSE resp.count
        /\ pcStats' = IF resp.rejected THEN "done" ELSE "await_migrated"
        /\ escaped' = IF resp.rejected THEN FetchStatsCatch(escaped) ELSE escaped
    /\ UNCHANGED <<tokens, loading, stats, pcTokens, totalTokens,
                   raydiumMigrated, tableVars>>
    /\ Render

StatsMigratedResolved ==
    /\ pcStats = "await_migrated"
    /\ \E resp \in CountResponses(MigratedCounts) :
        /\ reads' = [reads EXCEPT !["migrated"] = Some(resp)]
        /\ raydiumMigrated' = IF resp.rejected THEN raydiumMigrated ELSE resp.count
        /\ pcStats' = IF resp.rejected THEN "done" ELSE "await_caps"
        /\ escaped' = IF resp.rejected THEN FetchStatsCatch(escaped) ELSE escaped
    /\ UNCHANGED <<tokens, loading, stats, pcTokens, totalTokens,
                   kingsOfHill, tableVars>>
    /\ Render

\* fetchStats from the await of the market_cap read to its end.  A null
\* marketCapData makes .filter throw a TypeError, caught like a rejection.
StatsCapsResolved ==
    /\ pcStats = "await_caps"
    /\ \E resp \in CapsResponses :
        LET thrown == resp.rejected \/ IsNull(resp.data)
        IN  /\ reads' = [reads EXCEPT !["caps"] = Some(resp)]
            /\ stats' = IF thrown THEN stats
                        ELSE NewStats(totalTokens, kingsOfHill, raydiumMigrated,
                                      Get(resp.data))
            /\ escaped' = IF thrown THEN FetchStatsCatch(escaped) ELSE escaped
    /\ pcStats' = "done"
    /\ UNCHANGED <<tokens, loading, pcTokens, totalTokens, kingsOfHill,
                   raydiumMigrated, tableVars>>
    /\ Render

Next ==
    \/ Mount
    \/ FetchTokensResolved
    \/ StatsTotalResolved
    \/ StatsKingsResolved
    \/ StatsMigratedResolved
    \/ StatsCapsResolved

Spec == Init /\ [][Next]_vars

\* The token-list read eventually resolves, with data or with an error.
FairSpec == Spec /\ WF_vars(Mount) /\ WF_vars(FetchTokensResolved)

\* --------------------------------------------------- TokenTable: handleSort
\* Faulty variant: a new field keeps the current direction.
SortStateKeepDirection(field, curField, curDirection) ==
    IF field = curField
    THEN <<curField, IF curDirection = "asc" THEN "desc" ELSE "asc">>
    ELSE <<field, curDirection>>

\* The pair <<sortField, sortDirection>> after handleSort(field).
SortStateAfter(field, curField, curDirection) ==
    IF field = curField
    THEN <<curField, IF curDirection = "asc" THEN "desc" ELSE "asc">>
    ELSE <<field, "desc">>

\* A click on a column header: handleSort(field), then TokenTable renders.
\* The headers exist only while Home renders TokenTable.
HandleSort(field) ==
    /\ view = "table"
    /\ sortField' = SortStateAfter(field, sortField, sortDirection)[1]
    /\ sortDirection' = SortStateAfter(field, sortField, sortDirection)[2]
    /\ last' = Some([field |-> field, fieldBefore |-> sortField,
                     directionBefore |-> sortDirection])
    /\ UNCHANGED <<tokens, loading, stats, pcTokens, pcStats, totalTokens,
                   kingsOfHill, raydiumMigrated, escaped, reads, engine>>
    /\ Render

\* TokenTable as Home first renders it: fetchTokens has delivered a list,
\* fetchStats still awaits its first read.
TableInit ==
    /\ tokens \in TokenLists(MaxLen)
    /\ loading = FALSE
    /\ stats = StatsDefault
    /\ pcTokens = "done"
    /\ pcStats = "await_total"
    /\ totalTokens = NULL
    /\ kingsOfHill = NULL
    /\ raydiumMigrated = NULL
    /\ escaped = {}
    /\ reads = [r \in ReadNames |->
                 IF r = "tokens" THEN Some(Resolved(Some(tokens), NULL, FALSE))
                 ELSE NULL]
    /\ view = HomeView(FALSE)
    /\ sortField = "market_cap"
    /\ sortDirection = "desc"
    /\ engine \in Engines
    /\ sortedTokens = Rows(FALSE, tokens, "market_cap", "desc", engine)
    /\ last = NULL

TableNext == \E field \in Fields : HandleSort(field)

SpecTable == TableInit /\ [][TableNext]_vars

\* ======================================================== TokenTable claims
Positions == 1..Len(sortedTokens)

SortValue(k) == sortedTokens[k][sortField]

InputValue(k) == tokens[k][sortField]

\* The index in the tokens prop of the record rendered in row k.
InputIndex(k) == CHOOSE m \in 1..Len(tokens) : tokens[m] = sortedTokens[k]

\* C1: in the rows TokenTable renders, for every sort field and both
\* directions, every record whose value of the sort field is null comes
\* after every record whose value of it is not null.
C1_NullsLast ==
    \A i, j \in Positions :
        (i < j /\ IsNull(SortValue(i))) => IsNull(SortValue(j))

\* C1 witness: sorted ascending after a click, from a prop that holds a null
\* value of the sort field before a non-null one.
C1_Witness ==
    /\ view = "table"
    /\ last # NULL
    /\ sortDirection = "asc"
    /\ Len(sortedTokens) = Len(tokens)
    /\ \E i, j \in 1..Len(tokens) :
        i < j /\ IsNull(InputValue(i)) /\ ~IsNull(InputValue(j))

\* C2: the sort state starts as (market_cap, desc); handleSort on the active
\* field keeps the field and flips the direction, and a second consecutive
\* call on it restores the direction held before the first; handleSort on
\* another field makes it the active field with direction desc.
C2_Toggle ==
    /\ [](last = NULL => (sortField = "market_cap" /\ sortDirection = "desc"))
    /\ [][last' # last =>
            LET field == Get(last').field
            IN  /\ Get(last').fieldBefore = sortField
                /\ Get(last').directionBefore = sortDirection
                /\ field = sortField =>
                       /\ sortField' = sortField
                       /\ sortDirection' # sortDirection
                       /\ sortDirection' \in Directions
                /\ field # sortField =>
                       /\ sortField' = field
                       /\ sortDirection' = "desc"
                /\ (/\ last # NULL
                    /\ Get(last).field = Get(last).fieldBefore
                    /\ field = sortField) =>
                       sortDirection' = Get(last).directionBefore
       ]_vars

\* C2 witness: a field other than the default is active and descending
\* again after the second of two consecutive calls on it.
C2_Witness ==
    /\ last # NULL
    /\ Get(last).field = Get(last).fieldBefore
    /\ Get(last).directionBefore = "asc"
    /\ sortField # "market_cap"
    /\ sortDirection = "desc"

\* C5: any two rendered records with equal values of the sort field (both
\* null included) are in the same relative order as in the tokens prop.
C5_StableTies ==
    \A i, j \in Positions :
        (i < j /\ SortValue(i) = SortValue(j)) => InputIndex(i) < InputIndex(j)

\* C6: sorting the rendered rows again by the same field and direction
\* returns them unchanged.
C6_Idempotent ==
    view = "table" =>
        SortTokens(sortedTokens, sortField, sortDirection, engine) = sortedTokens

\* C7: the rendered rows are a permutation of the tokens prop, and two
\* records with non-null values of the sort field are in ascending order of
\* it when the direction is asc and in descending order when it is desc.
C7_PermutationOrdered ==
    view = "table" =>
        /\ Len(sortedTokens) = Len(tokens)
        /\ \A k \in 1..Len(tokens) :
            Cardinality({m \in Positions : sortedTokens[m] = tokens[k]})
                = Cardinality({m \in 1..Len(tokens) : tokens[m] = tokens[k]})
        /\ \A i, j \in Positions :
            (i < j /\ ~IsNull(SortValue(i)) /\ ~IsNull(SortValue(j))) =>
                IF sortDirection = "asc"
                THEN Get(SortValue(i)) <= Get(SortValue(j))
                ELSE Get(SortValue(i)) >= Get(SortValue(j))

\* C7 witness: sorted descending by a clicked field, from a prop in which a
\* smaller non-null value of that field comes before a larger one.
C7_Witness ==
    /\ view = "table"
    /\ last # NULL
    /\ sortDirection = "desc"
    /\ sortField # "market_cap"
    /\ \E i, j \in 1..Len(tokens) :
        /\ i < j
        /\ ~IsNull(InputValue(i))
        /\ ~IsNull(InputValue(j))
        /\ Get(InputValue(i)) < Get(InputValue(j))

\* ============================================================== Home claims
Delivered(r) == reads[r] # NULL

Response(r) == Get(reads[r])

StatsReads == {"total", "kings", "migrated", "caps"}

\* C3: when one of the four reads of fetchStats has failed, stats keeps the
\* value it had before fetchStats started (the default, fetchStats runs once)
\* and no exception has escaped fetchStats.
C3_StaleOnError ==
    (/\ pcStats = "done"
     /\ \E r \in StatsReads : Delivered(r) /\ IsFailure(Response(r)))
    => (stats = StatsDefault /\ "fetchStats" \notin escaped)

\* The sum of the market_cap values of the rows whose index is in idx.
RECURSIVE SumAt(_, _)
SumAt(rows, idx) ==
    IF idx = {} THEN 0
    ELSE LET k == CHOOSE k \in idx : TRUE
         IN  Get(rows[k].market_cap) + SumAt(rows, idx \ {k})

Row(v) == [market_cap |-> v]

\* C4: for the list of market_cap values delivered to fetchStats,
\* averageMarketCap is the sum of the values that are neither null nor 0
\* divided by their number, and 0 when there is none; [] gives 0 and
\* [100, 200, null, 300] gives 200.
C4_Average ==
    /\ (/\ pcStats = "done"
        /\ Delivered("caps")
        /\ ~Response("caps").rejected
        /\ ~IsNull(Response("caps").data)) =>
            LET rows == Get(Response("caps").data)
                idx == {k \in 1..Len(rows) :
                           /\ rows[k].market_cap # NULL
                           /\ rows[k].market_cap # Some(0)}
                avg == stats.averageMarketCap
            IN  IF idx = {} THEN avg = <<0, 1>>
                ELSE /\ avg[2] > 0
                     /\ avg[1] * Cardinality(idx) = SumAt(rows, idx) * avg[2]
    /\ AverageMarketCap(<<>>) = <<0, 1>>
    /\ AverageMarketCap(<<Row(Some(100)), Row(Some(200)), Row(NULL),
                          Row(Some(300))>>) = <<200, 1>>

\* C4 witness: fetchStats has set a non-zero average from a list that holds
\* a 0 or a null.
C4_Witness ==
    /\ pcStats = "done"
    /\ Delivered("caps")
    /\ ~IsNull(Response("caps").data)
    /\ stats.averageMarketCap # Zero
    /\ \E k \in 1..Len(Get(Response("caps").data)) :
        Get(Response("caps").data)[k].market_cap = Some(0)

\* C8: when the token-list read returned an error or threw, tokens keeps
\* the value it had before the call (the empty list, fetchTokens runs once),
\* no exception has escaped fetchTokens, and no step of fetchTokens changes
\* stats.
C8_TokensFailure ==
    /\ []((/\ pcTokens = "done"
           /\ IsFailure(Response("tokens")))
          => (tokens = <<>> /\ "fetchTokens" \notin escaped))
    /\ [][pcTokens' # pcTokens => stats' = stats]_vars

\* C8 witness: fetchTokens has ended on a returned error after fetchStats
\* had set stats.
C8_Witness ==
    /\ pcTokens = "done"
    /\ Response("tokens") = Failed
    /\ pcStats = "done"
    /\ stats # StatsDefault

\* The final tokens and stats as functions of the responses delivered.
ExpectedTokens ==
    IF IsFailure(Response("tokens")) \/ IsNull(Response("tokens").data)
    THEN <<>>
    ELSE Get(Response("tokens").data)

CountOf(r) ==
    IF IsNull(Response(r).count) THEN 0 ELSE Get(Response(r).count)

ExpectedStats ==
    IF /\ \A r \in StatsReads : Delivered(r) /\ ~Response(r).rejected
       /\ ~IsNull(Response("caps").data)
    THEN [totalTokens |-> CountOf("total"),
          kingsOfHill |-> CountOf("kings"),
          raydiumMigrated |-> CountOf("migrated"),
          averageMarketCap |-> AverageMarketCap(Get(Response("caps").data))]
    ELSE StatsDefault

\* C9: however the awaits of fetchTokens and fetchStats interleave, a step
\* of fetchTokens leaves stats alone and a step of fetchStats leaves tokens
\* and loading alone, stats is either its initial value or the complete
\* result of fetchStats, and once both have ended the state (tokens,
\* loading, stats) is determined by the responses delivered.
C9_Independent ==
    /\ [][/\ pcStats' = pcStats => stats' = stats
          /\ pcTokens' = pcTokens => (tokens' = tokens /\ loading' = loading)
       ]_vars
    /\ [](stats = StatsDefault \/ (pcStats = "done" /\ stats = ExpectedStats))
    /\ []((pcTokens = "done" /\ pcStats = "done") =>
            /\ tokens = ExpectedTokens
            /\ loading = FALSE
            /\ stats = ExpectedStats)

\* C9 witness: fetchStats has ended and set stats while fetchTokens, started
\* first, still awaits its read.
C9_Witness ==
    /\ pcTokens = "await"
    /\ pcStats = "done"
    /\ stats # StatsDefault
    /\ stats.kingsOfHill # stats.raydiumMigrated

\* C10: loading is true until fetchTokens ends; given that the token-list
\* read resolves, loading eventually is false and stays false, whether the
\* read succeeded or failed; the table is rendered only while loading is
\* false; no step of fetchStats changes loading.
C10_Loading ==
    /\ [](pcTokens # "done" => loading)
    /\ <>[](~loading)
    /\ [](view = "table" <=> ~loading)
    /\ [][(pcStats' # pcStats /\ pcTokens' = pcTokens) => loading' = loading]_vars

\* C10 witness: loading is false after a rejected token-list read, with
\* fetchStats still at its first await.
C10_Witness ==
    /\ ~loading
    /\ view = "table"
    /\ Delivered("tokens")
    /\ Response("tokens") = Rejected
    /\ pcStats = "await_total"

====
